---- MODULE Spec2Model ----
(***************************************************************************)
(* Model of the forecasting fallback cascade of the sales dashboard        *)
(* backend: routers/forecasts.py -> ForecastService.generate_sales_forecast *)
(* -> _forecast_with_prophet -> _forecast_with_arima ->                     *)
(* _forecast_with_linear_regression.                                        *)
(*                                                                         *)
(* Numbers.  A float is a record [k, v]: k = "fin" with v the value in      *)
(* thousandths, or k = "nan" / "inf"; k = "int" is a Python int.            *)
(* round(x, 2) therefore maps a finite float to a multiple of Milli.        *)
(* Sales amounts are whole units.                                           *)
(* Dates.  A Timestamp is the ordinal of a day of the year 2024; the text   *)
(* form 'YYYY-MM-DD' is the tuple <<y, m, d>>.                              *)
(***************************************************************************)
EXTENDS Integers, Sequences, FiniteSets, TLC

VARIABLES
    pc,          \* position of the request in the router / service / tiers
    table,       \* rows the daily query yields for the request's filters
    periods,     \* request.periods
    df,          \* the DataFrame handed from tier to tier
    df_columns,  \* the columns df carries
    work,        \* the intermediate value of the tier that is running
    attempted,   \* tiers entered in this call, in order
    log,         \* log.error entries of this call, in order
    tier_ret,    \* what the tier that succeeded returned, and which tier
    result,      \* forecast_data returned by generate_sales_forecast
    raised,      \* the exception leaving generate_sales_forecast
    response,    \* what the router answers
    open_conns,  \* connections opened and not yet closed
    self,        \* which of two concurrent calls the values above belong to
    peer,        \* the values of the other call, which is not taking a step
    outer,       \* the call of generate_category_forecasts / _region_forecasts
    db           \* the sales table, the dataset file and what init_db did

vars == <<pc, table, periods, df, df_columns, work, attempted, log,
          tier_ret, result, raised, response, open_conns, self, peer,
          outer, db>>

\* ------------------------------------------------------------------ bounds
MaxDay     == 3     \* observed dates lie in FirstDay .. FirstDay + MaxDay
MaxPeriods == 3     \* largest horizon requested
MaxNegPeriods == 1  \* horizons down to -MaxNegPeriods are requested too
FirstDay   == 58    \* 2024-02-27, so that horizons cross a month end
Milli      == 10    \* thousandths per hundredth

SalesVals  == {1, 2, 3}
ExcTypes   == {"ValueError", "RuntimeError"}

\* ---------------------------------------------------------------- calendar
DaysInMonth == <<31, 29, 31, 30, 31, 30, 31, 31, 30, 31, 30, 31>>

RECURSIVE DaysBeforeMonth(_)
DaysBeforeMonth(m) ==
    IF m = 1 THEN 0 ELSE DaysBeforeMonth(m - 1) + DaysInMonth[m - 1]

\* pd.to_datetime on a 'YYYY-MM-DD' string
to_datetime(s) == DaysBeforeMonth(s[2]) + s[3]

\* Timestamp.strftime('%Y-%m-%d')
strftime(t) ==
    LET m == CHOOSE k \in 1..12 :
                 DaysBeforeMonth(k) < t /\ t <= DaysBeforeMonth(k) + DaysInMonth[k]
    IN  <<2024, m, t - DaysBeforeMonth(m)>>

\* ------------------------------------------------------------------ floats
Fin(v) == [k |-> "fin", v |-> v]
NaN    == [k |-> "nan", v |-> 0]
PosInf == [k |-> "inf", v |-> 0]

\* floor(n / d) for d > 0
FloorDiv(n, d) == IF n >= 0 THEN n \div d ELSE -((-n + d - 1) \div d)

\* the integer nearest to n / d (d > 0), ties to the even one
RoundHalfEven(n, d) ==
    LET q == FloorDiv(n, d)
        r == n - q * d
    IN  IF 2 * r < d THEN q
        ELSE IF 2 * r > d THEN q + 1
        ELSE IF q % 2 = 0 THEN q ELSE q + 1

\* round(x, 2) of the float n / d hundredths, as a float
Round2Rat(n, d) == Fin(Milli * RoundHalfEven(n, d))

\* the value handed on with all the digits the library gave it
round2_Unrounded(x) == x

\* round(x, 2): nan and the infinities are returned as they are
round2(x) == IF x.k = "fin" THEN Round2Rat(x.v, Milli) ELSE x

\* ------------------------------------------------------- sequences, frames
RECURSIVE SumSeq(_)
SumSeq(s) == IF s = <<>> THEN 0 ELSE Head(s) + SumSeq(Tail(s))

SeqMin(s) == CHOOSE a \in {s[i] : i \in DOMAIN s} : \A i \in DOMAIN s : a <= s[i]
SeqMax(s) == CHOOSE a \in {s[i] : i \in DOMAIN s} : \A i \in DOMAIN s : a >= s[i]

Column(frame, c) == [i \in DOMAIN frame |-> frame[i][c]]

\* tail with the row count short by one
tail_OffByOne(frame, n) ==
    LET len == Len(frame)
        m   == n - 1
    IN  SubSeq(frame, IF m >= len THEN 1 ELSE len - m + 1, len)

\* DataFrame.tail(n): the last n rows; for n < 0 all rows but the first -n
tail(frame, n) ==
    LET len == Len(frame)
        from == IF n = 0 THEN len + 1
                ELSE IF n > 0 THEN (IF n >= len THEN 1 ELSE len - n + 1)
                ELSE (IF -n >= len THEN len + 1 ELSE 1 - n)
    IN  SubSeq(frame, from, len)

\* DataFrame.sort_values('date'): stable insertion sort on the date column
RECURSIVE Insert(_, _)
Insert(sorted, row) ==
    IF sorted = <<>> THEN <<row>>
    ELSE IF sorted[Len(sorted)].date <= row.date THEN Append(sorted, row)
    ELSE Append(Insert(SubSeq(sorted, 1, Len(sorted) - 1), row), sorted[Len(sorted)])

RECURSIVE sort_values(_)
sort_values(frame) ==
    IF frame = <<>> THEN <<>>
    ELSE Insert(sort_values(SubSeq(frame, 1, Len(frame) - 1)), frame[Len(frame)])

\* the dates counted from the last observed day itself: timedelta(days=i)
forecast_dates_FromLast(last_date, p) ==
    [i \in 1..(IF p > 0 THEN p ELSE 0) |-> last_date + i - 1]

\* [last_date + timedelta(days=i+1) for i in range(periods)]
forecast_dates(last_date, p) ==
    [i \in 1..(IF p > 0 THEN p ELSE 0) |-> last_date + i]

\* -------------------------------------------------- tier 3: linear regression
\* statsmodels add_constant with has_constant='skip' on one column: a column
\* that is constant and non-zero is taken to be the constant already, and the
\* reduction over an empty column raises.
add_constant(col) ==
    IF col = <<>> THEN [raises |-> TRUE, ncols |-> 0]
    ELSE IF (\A i \in DOMAIN col : col[i] = col[1] /\ col[i] # 0)
         THEN [raises |-> FALSE, ncols |-> 1]
         ELSE [raises |-> FALSE, ncols |-> 2]

\* largest r with r * r <= v, for 0 <= v
RECURSIVE SqrtSearch(_, _, _)
SqrtSearch(v, lo, hi) ==
    IF hi - lo <= 1 THEN lo
    ELSE LET mid == (lo + hi) \div 2
         IN  IF mid * mid <= v THEN SqrtSearch(v, mid, hi) ELSE SqrtSearch(v, lo, mid)

Isqrt(v) == SqrtSearch(v, 0, 46340)

\* sm.OLS(y, add_constant(X)).fit() by pseudo-inverse: intercept a_num / den,
\* slope b_num / den, residual sum of squares ssr_num / den.
OLS(days, y) ==
    LET n   == Len(days)
        Sx  == SumSeq(days)
        Sy  == SumSeq(y)
        Sxx == SumSeq([i \in DOMAIN days |-> days[i] * days[i]])
        Sxy == SumSeq([i \in DOMAIN days |-> days[i] * y[i]])
        Syy == SumSeq([i \in DOMAIN y |-> y[i] * y[i]])
        D   == n * Sxx - Sx * Sx
        full == D # 0
        den == IF full THEN D ELSE n
        a   == IF full THEN Sy * Sxx - Sx * Sxy ELSE Sy
        b   == IF full THEN n * Sxy - Sx * Sy ELSE 0
    IN  [a_num |-> a, b_num |-> b, den |-> den,
         nparams  |-> add_constant(days).ncols,
         df_resid |-> n - (IF full THEN 2 ELSE 1),
         ssr_num  |-> den * Syy - a * Sy - b * Sxy]

\* What a zero-over-zero or tiny-over-zero residual variance can come out as.
ZeroDiv == {"nan", "inf"}

\* 1.96 * np.sqrt(model.mse_resid) in hundredths (truncated), when finite
HalfWidth(model) ==
    Isqrt((38416 * model.ssr_num) \div (model.den * model.df_resid))

\* the observations numbered 0, 1, 2, ... in place of the days elapsed
linear_fit_RowNumbers(frame, p) ==
    LET dates      == Column(frame, "date")
        first_date == SeqMin(dates)
        days       == [i \in DOMAIN dates |-> i - 1]
        model      == OLS(days, Column(frame, "sales"))
        last_day   == SeqMax(days)
        fdays      == [i \in 1..(IF p > 0 THEN p ELSE 0) |-> last_day + i]
    IN  [model      |-> model,
         first_date |-> first_date,
         fdates     |-> forecast_dates(SeqMax(dates), p),
         fdays      |-> fdays,
         forecast_X |-> add_constant(fdays),
         defined    |-> model.df_resid > 0,
         w          |-> IF model.df_resid > 0 THEN HalfWidth(model) ELSE 0]

\* the fit and the regressors of _forecast_with_linear_regression: the days
\* since the first date, the fitted line, the forecast days and their matrix
linear_fit(frame, p) ==
    LET dates      == Column(frame, "date")
        first_date == SeqMin(dates)
        days       == [i \in DOMAIN dates |-> dates[i] - first_date]
        model      == OLS(days, Column(frame, "sales"))
        last_day   == SeqMax(days)
        fdays      == [i \in 1..(IF p > 0 THEN p ELSE 0) |-> last_day + i]
    IN  [model      |-> model,
         first_date |-> first_date,
         fdates     |-> forecast_dates(SeqMax(dates), p),
         fdays      |-> fdays,
         forecast_X |-> add_constant(fdays),
         defined    |-> model.df_resid > 0,
         w          |-> IF model.df_resid > 0 THEN HalfWidth(model) ELSE 0]

\* the fitted line read one day early, at max(days) + i - 1
forecast_value_DayEarly(fit, i) ==
    100 * (fit.model.a_num + fit.model.b_num * (fit.fdays[i] - 1))

\* forecast_values[i], lower_bound[i] and upper_bound[i] before rounding, as
\* numerators over model.den, in hundredths
forecast_value(fit, i) == 100 * (fit.model.a_num + fit.model.b_num * fit.fdays[i])
lower_value(fit, i)    == forecast_value(fit, i) - fit.w * fit.model.den
upper_value(fit, i)    == forecast_value(fit, i) + fit.w * fit.model.den

\* the integer 0 that replaces a lower bound that is not > 0
IntZero == [k |-> "int", v |-> 0]

\* the lower bound handed on as computed, whatever its sign
lower_positive_Unclamped(fit, i) == TRUE

\* lower_bound[i] > 0: false for a nan or a minus infinity
lower_positive(fit, i) == fit.defined /\ lower_value(fit, i) > 0

\* the body of _forecast_with_linear_regression's try block; z is the outcome
\* of the division by zero residual degrees of freedom, when there is one.
\* sm.OLS raises ValueError on a frame without rows
linear_regression(frame, p, z) ==
    LET fit      == linear_fit(frame, p)
        lower(i) == IF lower_positive(fit, i)
                    THEN Round2Rat(lower_value(fit, i), fit.model.den)
                    ELSE IntZero
        upper(i) == IF fit.defined THEN Round2Rat(upper_value(fit, i), fit.model.den)
                    ELSE IF z = "nan" THEN NaN ELSE PosInf
    IN  IF frame = <<>> \/ fit.forecast_X.raises
              \/ fit.forecast_X.ncols # fit.model.nparams
        THEN [ok |-> FALSE, exc |-> "ValueError", results |-> <<>>]
        ELSE [ok |-> TRUE, exc |-> "none",
              results |-> [i \in 1..p |->
                  [date        |-> strftime(fit.fdates[i]),
                   forecast    |-> Round2Rat(forecast_value(fit, i), fit.model.den),
                   lower_bound |-> lower(i),
                   upper_bound |-> upper(i)]]]

\* ------------------------------------------- what the libraries hand back
\* yhat_lower / yhat / yhat_upper of a fitted model, in thousandths; row j of
\* a prediction is the chosen triple moved by 111 thousandths per row.
LibTriples == {<<1234, 2346, 3458>>, <<-1117, 1003, 2999>>}

LibRow(t, j) == [yhat       |-> Fin(t[2] + j * 111),
                 yhat_lower |-> Fin(t[1] + j * 111),
                 yhat_upper |-> Fin(t[3] + j * 111)]

\* ----------------------------------------------------------- the daily query
\* SELECT order_date, SUM(sales) ... GROUP BY order_date ORDER BY order_date,
\* dates formatted '%Y-%m-%d': one row per date, ascending.  f[d] = 0 means
\* no order on day d.
RECURSIVE DailyRows(_, _)
DailyRows(f, d) ==
    IF d > MaxDay THEN <<>>
    ELSE (IF f[d] = 0 THEN <<>>
          ELSE <<[date |-> strftime(FirstDay + d), sales |-> f[d]]>>)
         \o DailyRows(f, d + 1)

DailyQueries == {DailyRows(f, 0) : f \in [0..MaxDay -> SalesVals \cup {0}]}

None == [type |-> "none", origin |-> "none"]
NoReturn == [tier |-> "none", value |-> <<>>]

ProphetSteps == {"prophet_prepare", "prophet_fit", "prophet_predict", "prophet_format"}
ArimaSteps   == {"arima_prepare", "arima_fit", "arima_forecast", "arima_format"}

\* no breakdown forecast is under way
NoOuter ==
    [pc |-> "none", kind |-> "none", periods |-> 30, groups |-> <<>>, i |-> 0,
     forecasts |-> <<>>, log |-> <<>>, raised |-> None, response |-> "none"]

\* a database file without the sales table and no dataset file; init_db not
\* under way
NoDb ==
    [pc |-> "idle", tbl |-> FALSE, rows |-> {}, file |-> FALSE, csv |-> {},
     before |-> {}, loaded |-> FALSE, sampled |-> FALSE, raised |-> FALSE]

\* the records a sales table or a dataset file can hold
Records == {1, 2, 3}

\* the database files and dataset files the application can start with
Databases ==
    {d \in {[NoDb EXCEPT !.tbl = t, !.rows = r, !.file = f, !.csv = c] :
                t \in BOOLEAN, r \in SUBSET Records,
                f \in BOOLEAN, c \in SUBSET Records} :
        /\ d.tbl \/ d.rows = {}
        /\ d.file \/ d.csv = {}}

\* the values of a call that has not begun
NoCall ==
    [pc |-> "idle", table |-> <<>>, periods |-> 30, df |-> <<>>,
     df_columns |-> {}, work |-> <<>>, attempted |-> <<>>, log |-> <<>>,
     tier_ret |-> NoReturn, result |-> <<>>, raised |-> None,
     response |-> "none"]

\* the values of the call that is taking steps: its arguments and the locals
\* of the endpoint, of generate_sales_forecast and of the tier it is in
Locals ==
    [pc |-> pc, table |-> table, periods |-> periods, df |-> df,
     df_columns |-> df_columns, work |-> work, attempted |-> attempted,
     log |-> log, tier_ret |-> tier_ret, result |-> result, raised |-> raised,
     response |-> response]

\* no request is being served
InitCalls ==
    /\ pc = "idle"
    /\ table = <<>>
    /\ periods = 30
    /\ df = <<>>
    /\ df_columns = {}
    /\ work = <<>>
    /\ attempted = <<>>
    /\ log = <<>>
    /\ tier_ret = NoReturn
    /\ result = <<>>
    /\ raised = None
    /\ response = "none"
    /\ open_conns = 0
    /\ self = 1
    /\ peer = NoCall
    /\ outer = NoOuter

Init ==
    /\ InitCalls
    /\ db = NoDb

\* routers/forecasts.py: the endpoint builds Filter and ForecastRequest from
\* the query and calls the service; nothing constrains periods.
Request ==
    /\ pc = "idle"
    /\ \E p \in -MaxNegPeriods..MaxPeriods, rows \in DailyQueries :
          /\ periods' = p
          /\ table' = rows
    /\ pc' = "service"
    /\ df' = <<>>
    /\ df_columns' = {}
    /\ work' = <<>>
    /\ attempted' = <<>>
    /\ log' = <<>>
    /\ tier_ret' = NoReturn
    /\ result' = <<>>
    /\ raised' = None
    /\ response' = "none"
    /\ UNCHANGED open_conns
    /\ UNCHANGED <<self, peer, outer, db>>

\* conn = get_connection(), before the try block
get_connection ==
    /\ pc = "service"
    /\ open_conns' = open_conns + 1
    /\ pc' = "connected"
    /\ UNCHANGED <<table, periods, df, df_columns, work, attempted, log,
                   tier_ret, result, raised, response>>
    /\ UNCHANGED <<self, peer, outer, db>>

\* DataService.get_sales_time_series(filters) takes a connection of its own
data_service_connect ==
    /\ pc = "connected"
    /\ open_conns' = open_conns + 1
    /\ pc' = "query"
    /\ UNCHANGED <<table, periods, df, df_columns, work, attempted, log,
                   tier_ret, result, raised, response>>
    /\ UNCHANGED <<self, peer, outer, db>>

\* ... and returns the daily rows, closing its connection in its finally
get_sales_time_series ==
    /\ pc = "query"
    /\ open_conns' = open_conns - 1
    /\ pc' = "loaded"
    /\ UNCHANGED <<table, periods, df, df_columns, work, attempted, log,
                   tier_ret, result, raised, response>>
    /\ UNCHANGED <<self, peer, outer, db>>

\* ... or re-raises what the query raised
get_sales_time_series_raises ==
    /\ pc = "query"
    /\ open_conns' = open_conns - 1
    /\ \E e \in ExcTypes : raised' = [type |-> e, origin |-> "data_service"]
    /\ pc' = "service_except"
    /\ UNCHANGED <<table, periods, df, df_columns, work, attempted, log,
                   tier_ret, result, response>>
    /\ UNCHANGED <<self, peer, outer, db>>

\* the empty check missing: the empty frame goes on to Prophet
EmptyReturn_FallsThrough ==
    /\ pc = "loaded"
    /\ table = <<>>
    /\ attempted' = Append(attempted, "prophet")
    /\ pc' = "prophet_prepare"
    /\ UNCHANGED <<table, periods, df, df_columns, work, log, tier_ret,
                   result, raised, response, open_conns>>
    /\ UNCHANGED <<self, peer, outer, db>>

\* the empty list returned without passing through the finally block
EmptyReturn_SkipsFinally ==
    /\ pc = "loaded"
    /\ table = <<>>
    /\ result' = <<>>
    /\ pc' = "router"
    /\ UNCHANGED <<table, periods, df, df_columns, work, attempted, log,
                   tier_ret, raised, response, open_conns>>
    /\ UNCHANGED <<self, peer, outer, db>>

\* if df.empty: return []
EmptyReturn ==
    /\ pc = "loaded"
    /\ table = <<>>
    /\ result' = <<>>
    /\ pc' = "service_finally"
    /\ UNCHANGED <<table, periods, df, df_columns, work, attempted, log,
                   tier_ret, raised, response, open_conns>>
    /\ UNCHANGED <<self, peer, outer, db>>

\* df['date'] = pd.to_datetime(df['date']); df = df.sort_values('date');
\* then the call of _forecast_with_prophet
PrepareFrame ==
    /\ pc = "loaded"
    /\ table # <<>>
    /\ df' = sort_values([i \in DOMAIN table |->
                 [date |-> to_datetime(table[i].date), sales |-> table[i].sales]])
    /\ df_columns' = {"date", "sales"}
    /\ attempted' = Append(attempted, "prophet")
    /\ pc' = "prophet_prepare"
    /\ UNCHANGED <<table, periods, work, log, tier_ret, result, raised,
                   response, open_conns>>
    /\ UNCHANGED <<self, peer, outer, db>>

\* the 'Format dates and round numeric values' loop shared by tiers 1 and 2
format_records(rows) ==
    [i \in DOMAIN rows |->
        [date        |-> strftime(rows[i].date),
         forecast    |-> round2(rows[i].forecast),
         lower_bound |-> round2(rows[i].lower_bound),
         upper_bound |-> round2(rows[i].upper_bound)]]

\* ------------------------------------------------------------ tier 1: Prophet
\* prophet_df = df[['date', 'sales']].rename(columns={'date': 'ds', 'sales': 'y'})
ProphetPrepare ==
    /\ pc = "prophet_prepare"
    /\ work' = [i \in DOMAIN df |-> [ds |-> df[i].date, y |-> df[i].sales]]
    /\ pc' = "prophet_fit"
    /\ UNCHANGED <<table, periods, df, df_columns, attempted, log, tier_ret,
                   result, raised, response, open_conns>>
    /\ UNCHANGED <<self, peer, outer, db>>

\* model.fit(prophet_df): refuses fewer than 2 rows, may fail on any input
ProphetFit ==
    /\ pc = "prophet_fit"
    /\ Len(work) >= 2
    /\ pc' = "prophet_predict"
    /\ UNCHANGED <<table, periods, df, df_columns, work, attempted, log,
                   tier_ret, result, raised, response, open_conns>>
    /\ UNCHANGED <<self, peer, outer, db>>

\* model.make_future_dataframe(periods): the history dates followed by the
\* days after the last one
make_future_dataframe(history, p) ==
    LET last_date == SeqMax(history)
    IN  history \o [i \in 1..(IF p > 0 THEN p ELSE 0) |-> last_date + i]

\* future = model.make_future_dataframe(periods); forecast = model.predict(future)
ProphetPredict ==
    /\ pc = "prophet_predict"
    /\ periods >= -1
    /\ \E t \in LibTriples :
          LET future == make_future_dataframe(Column(work, "ds"), periods)
          IN  work' = [j \in DOMAIN future |->
                          [ds |-> future[j]] @@ LibRow(t, j)]
    /\ pc' = "prophet_format"
    /\ UNCHANGED <<table, periods, df, df_columns, attempted, log, tier_ret,
                   result, raised, response, open_conns>>
    /\ UNCHANGED <<self, peer, outer, db>>

\* forecast[[...]].tail(periods), renamed, as records, dates formatted and
\* numbers rounded; return results
prophet_results(forecast, p) ==
    format_records([i \in DOMAIN tail(forecast, p) |->
        [date        |-> tail(forecast, p)[i].ds,
         forecast    |-> tail(forecast, p)[i].yhat,
         lower_bound |-> tail(forecast, p)[i].yhat_lower,
         upper_bound |-> tail(forecast, p)[i].yhat_upper]])

ProphetFormat ==
    /\ pc = "prophet_format"
    /\ tier_ret' = [tier |-> "prophet", value |-> prophet_results(work, periods)]
    /\ work' = <<>>
    /\ pc' = "tier_return"
    /\ UNCHANGED <<table, periods, df, df_columns, attempted, log, result,
                   raised, response, open_conns>>
    /\ UNCHANGED <<self, peer, outer, db>>

\* the Prophet handler falling back to the linear regression directly
ProphetExcept_SkipsArima ==
    /\ pc \in ProphetSteps
    /\ \E e \in ExcTypes : log' = Append(log, [tier |-> "prophet", type |-> e])
    /\ work' = <<>>
    /\ attempted' = Append(attempted, "linear")
    /\ pc' = "linear"
    /\ UNCHANGED <<table, periods, df, df_columns, tier_ret, result, raised,
                   response, open_conns>>
    /\ UNCHANGED <<self, peer, outer, db>>

\* the Prophet handler logging and re-raising instead of falling back
ProphetExcept_Reraises ==
    /\ pc \in ProphetSteps
    /\ \E e \in ExcTypes :
          /\ log' = Append(log, [tier |-> "prophet", type |-> e])
          /\ raised' = [type |-> e, origin |-> "prophet"]
    /\ work' = <<>>
    /\ pc' = "service_except"
    /\ UNCHANGED <<table, periods, df, df_columns, attempted, tier_ret, result,
                   response, open_conns>>
    /\ UNCHANGED <<self, peer, outer, db>>

\* except Exception as e: log.error(...); return _forecast_with_arima(df, periods)
ProphetExcept ==
    /\ pc \in ProphetSteps
    /\ \E e \in ExcTypes : log' = Append(log, [tier |-> "prophet", type |-> e])
    /\ work' = <<>>
    /\ attempted' = Append(attempted, "arima")
    /\ pc' = "arima_prepare"
    /\ UNCHANGED <<table, periods, df, df_columns, tier_ret, result, raised,
                   response, open_conns>>
    /\ UNCHANGED <<self, peer, outer, db>>

\* -------------------------------------------------------------- tier 2: ARIMA
\* the series shifted to start at zero in place, in the shared frame
ArimaPrepare_InPlace ==
    /\ pc = "arima_prepare"
    /\ df' = [i \in DOMAIN df |->
                 [df[i] EXCEPT !.sales = @ - SeqMin(Column(df, "sales"))]]
    /\ work' = Column(df', "sales")
    /\ pc' = "arima_fit"
    /\ UNCHANGED <<table, periods, df_columns, attempted, log, tier_ret,
                   result, raised, response, open_conns>>
    /\ UNCHANGED <<self, peer, outer, db>>

\* ts_data = df.set_index('date')['sales']
ArimaPrepare ==
    /\ pc = "arima_prepare"
    /\ work' = Column(df, "sales")
    /\ pc' = "arima_fit"
    /\ UNCHANGED <<table, periods, df, df_columns, attempted, log, tier_ret,
                   result, raised, response, open_conns>>
    /\ UNCHANGED <<self, peer, outer, db>>

\* SARIMAX(ts_data, order=(1,1,1), seasonal_order=(1,1,1,12), ...).fit(disp=False);
\* a series without observations is refused
ArimaFit ==
    /\ pc = "arima_fit"
    /\ work # <<>>
    /\ pc' = "arima_forecast"
    /\ UNCHANGED <<table, periods, df, df_columns, work, attempted, log,
                   tier_ret, result, raised, response, open_conns>>
    /\ UNCHANGED <<self, peer, outer, db>>

\* model_fit.get_forecast(steps=periods), predicted_mean and conf_int(): one
\* entry per step; a horizon without steps is refused
ArimaForecast ==
    /\ pc = "arima_forecast"
    /\ periods >= 1
    /\ \E t \in LibTriples : work' = [j \in 1..periods |-> LibRow(t, j)]
    /\ pc' = "arima_format"
    /\ UNCHANGED <<table, periods, df, df_columns, attempted, log, tier_ret,
                   result, raised, response, open_conns>>
    /\ UNCHANGED <<self, peer, outer, db>>

\* last_date = df['date'].max(); dates = [last_date + timedelta(days=i+1) ...];
\* result_df, records, formatting; return results
arima_results(frame, forecast, p) ==
    LET dates == forecast_dates(SeqMax(Column(frame, "date")), p)
    IN  format_records([i \in DOMAIN dates |->
            [date        |-> dates[i],
             forecast    |-> forecast[i].yhat,
             lower_bound |-> forecast[i].yhat_lower,
             upper_bound |-> forecast[i].yhat_upper]])

\* the last date of a frame without rows is NaT, which strftime refuses
ArimaFormat ==
    /\ pc = "arima_format"
    /\ df # <<>>
    /\ tier_ret' = [tier |-> "arima", value |-> arima_results(df, work, periods)]
    /\ work' = <<>>
    /\ pc' = "tier_return"
    /\ UNCHANGED <<table, periods, df, df_columns, attempted, log, result,
                   raised, response, open_conns>>
    /\ UNCHANGED <<self, peer, outer, db>>

\* 'except ValueError' in place of 'except Exception': other types escape
ArimaExcept_OnlyValueError ==
    /\ pc \in ArimaSteps
    /\ \E e \in ExcTypes :
          IF e = "ValueError"
          THEN /\ log' = Append(log, [tier |-> "arima", type |-> e])
               /\ attempted' = Append(attempted, "linear")
               /\ pc' = "linear"
               /\ UNCHANGED raised
          ELSE /\ raised' = [type |-> e, origin |-> "arima"]
               /\ pc' = "service_except"
               /\ UNCHANGED <<log, attempted>>
    /\ work' = <<>>
    /\ UNCHANGED <<table, periods, df, df_columns, tier_ret, result,
                   response, open_conns>>
    /\ UNCHANGED <<self, peer, outer, db>>

\* the ARIMA handler falling back without a word in the log
ArimaExcept_Silent ==
    /\ pc \in ArimaSteps
    /\ work' = <<>>
    /\ attempted' = Append(attempted, "linear")
    /\ pc' = "linear"
    /\ UNCHANGED <<table, periods, df, df_columns, log, tier_ret, result,
                   raised, response, open_conns>>
    /\ UNCHANGED <<self, peer, outer, db>>

\* except Exception as e: log.error(...);
\* return _forecast_with_linear_regression(df, periods)
ArimaExcept ==
    /\ pc \in ArimaSteps
    /\ \E e \in ExcTypes : log' = Append(log, [tier |-> "arima", type |-> e])
    /\ work' = <<>>
    /\ attempted' = Append(attempted, "linear")
    /\ pc' = "linear"
    /\ UNCHANGED <<table, periods, df, df_columns, tier_ret, result, raised,
                   response, open_conns>>
    /\ UNCHANGED <<self, peer, outer, db>>

\* -------------------------------------------------------------- tier 3 steps
\* the try block runs to 'return results'; df has gained the 'days' column
LinearReturn ==
    /\ pc = "linear"
    /\ \E z \in ZeroDiv :
          LET out == linear_regression(df, periods, z)
          IN  /\ out.ok
              /\ tier_ret' = [tier |-> "linear", value |-> out.results]
    /\ df_columns' = df_columns \cup {"days"}
    /\ pc' = "tier_return"
    /\ UNCHANGED <<table, periods, df, work, attempted, log, result, raised,
                   response, open_conns>>
    /\ UNCHANGED <<self, peer, outer, db>>

\* the terminal handler answering with an empty list instead of re-raising
LinearExcept_Swallows ==
    /\ pc = "linear"
    /\ \E z \in ZeroDiv :
          LET out == linear_regression(df, periods, z)
          IN  /\ ~out.ok
              /\ log' = Append(log, [tier |-> "linear", type |-> out.exc])
    /\ tier_ret' = [tier |-> "linear", value |-> <<>>]
    /\ df_columns' = df_columns \cup {"days"}
    /\ pc' = "tier_return"
    /\ UNCHANGED <<table, periods, df, work, attempted, result, raised,
                   response, open_conns>>
    /\ UNCHANGED <<self, peer, outer, db>>

\* the failure of the linear regression caught once more on its way out, by
\* a handler that tries the linear regression again
LinearExcept_CaughtAgain ==
    /\ pc = "linear"
    /\ \E z \in ZeroDiv :
          LET out == linear_regression(df, periods, z)
          IN  /\ ~out.ok
              /\ log' = Append(log, [tier |-> "linear", type |-> out.exc])
              /\ IF Len(attempted) = 3
                 THEN /\ attempted' = Append(attempted, "linear")
                      /\ pc' = "linear"
                      /\ UNCHANGED raised
                 ELSE /\ raised' = [type |-> out.exc, origin |-> "linear"]
                      /\ pc' = "service_except"
                      /\ UNCHANGED attempted
    /\ df_columns' = df_columns \cup {"days"}
    /\ UNCHANGED <<table, periods, df, work, tier_ret, result,
                   response, open_conns>>
    /\ UNCHANGED <<self, peer, outer, db>>

\* except Exception as e: log.error(...); raise -- and the exception passes
\* through the handlers of tiers 2 and 1, which are not try blocks
LinearExcept ==
    /\ pc = "linear"
    /\ \E z \in ZeroDiv :
          LET out == linear_regression(df, periods, z)
          IN  /\ ~out.ok
              /\ log' = Append(log, [tier |-> "linear", type |-> out.exc])
              /\ raised' = [type |-> out.exc, origin |-> "linear"]
    /\ df_columns' = df_columns \cup {"days"}
    /\ pc' = "service_except"
    /\ UNCHANGED <<table, periods, df, work, attempted, tier_ret, result,
                   response, open_conns>>
    /\ UNCHANGED <<self, peer, outer, db>>

\* ------------------------------------------- back in generate_sales_forecast
\* the service dropping the first point of what the cascade returned
TierReturn_DropsFirst ==
    /\ pc = "tier_return"
    /\ result' = SubSeq(tier_ret.value, 2, Len(tier_ret.value))
    /\ pc' = "service_finally"
    /\ UNCHANGED <<table, periods, df, df_columns, work, attempted, log,
                   tier_ret, raised, response, open_conns>>
    /\ UNCHANGED <<self, peer, outer, db>>

\* forecast_data = <what the cascade returned>; return forecast_data
TierReturn ==
    /\ pc = "tier_return"
    /\ result' = tier_ret.value
    /\ pc' = "service_finally"
    /\ UNCHANGED <<table, periods, df, df_columns, work, attempted, log,
                   tier_ret, raised, response, open_conns>>
    /\ UNCHANGED <<self, peer, outer, db>>

\* except Exception as e: log.error(...); raise
ServiceExcept ==
    /\ pc = "service_except"
    /\ log' = Append(log, [tier |-> "service", type |-> raised.type])
    /\ pc' = "service_finally"
    /\ UNCHANGED <<table, periods, df, df_columns, work, attempted, tier_ret,
                   result, raised, response, open_conns>>
    /\ UNCHANGED <<self, peer, outer, db>>

\* finally: conn.close()
ServiceFinally ==
    /\ pc = "service_finally"
    /\ open_conns' = open_conns - 1
    /\ pc' = "router"
    /\ UNCHANGED <<table, periods, df, df_columns, work, attempted, log,
                   tier_ret, result, raised, response>>
    /\ UNCHANGED <<self, peer, outer, db>>

\* the endpoint wraps the list in ApiResponse(status="success") or turns the
\* exception into HTTPException(500)
RouterRespond ==
    /\ pc = "router"
    /\ outer.pc = "none"
    /\ response' = IF raised = None THEN "success" ELSE "http500"
    /\ pc' = "done"
    /\ UNCHANGED <<table, periods, df, df_columns, work, attempted, log,
                   tier_ret, result, raised, open_conns>>
    /\ UNCHANGED <<self, peer, outer, db>>

\* the response has been sent; the values of the request are dropped and the
\* worker waits for the next request
Release ==
    /\ pc = "done"
    /\ pc' = "idle"
    /\ table' = <<>>
    /\ periods' = 30
    /\ df' = <<>>
    /\ df_columns' = {}
    /\ work' = <<>>
    /\ attempted' = <<>>
    /\ log' = <<>>
    /\ tier_ret' = NoReturn
    /\ result' = <<>>
    /\ raised' = None
    /\ response' = "none"
    /\ UNCHANGED open_conns
    /\ UNCHANGED <<self, peer, outer, db>>

\* ------------------------------------------------------ two calls at once
\* the series and horizons of two requests served at the same time
ConcQueries ==
    {<<>>,
     <<[date |-> strftime(FirstDay), sales |-> 1]>>,
     <<[date |-> strftime(FirstDay), sales |-> 3],
       [date |-> strftime(FirstDay + 1), sales |-> 1],
       [date |-> strftime(FirstDay + 2), sales |-> 2]>>}

ConcPeriods == {1, 2}

\* the endpoint entered for one of these requests
ConcRequest ==
    /\ pc = "idle"
    /\ \E p \in ConcPeriods, rows \in ConcQueries :
          /\ periods' = p
          /\ table' = rows
    /\ pc' = "service"
    /\ df' = <<>>
    /\ df_columns' = {}
    /\ work' = <<>>
    /\ attempted' = <<>>
    /\ log' = <<>>
    /\ tier_ret' = NoReturn
    /\ result' = <<>>
    /\ raised' = None
    /\ response' = "none"
    /\ UNCHANGED <<open_conns, self, peer, outer, db>>

\* the frame kept in one place for all calls: the call that goes on finds
\* the frame the other call left
Switch_SharedFrame ==
    /\ self' = 3 - self
    /\ peer' = Locals
    /\ pc' = peer.pc
    /\ table' = peer.table
    /\ periods' = peer.periods
    /\ df_columns' = peer.df_columns
    /\ work' = peer.work
    /\ attempted' = peer.attempted
    /\ log' = peer.log
    /\ tier_ret' = peer.tier_ret
    /\ result' = peer.result
    /\ raised' = peer.raised
    /\ response' = peer.response
    /\ UNCHANGED <<df, open_conns, outer, db>>

\* the other call goes on: every value of a call is an argument or a local
\* of its own invocation, the engine being the only object both calls use
Switch ==
    /\ self' = 3 - self
    /\ peer' = Locals
    /\ pc' = peer.pc
    /\ table' = peer.table
    /\ periods' = peer.periods
    /\ df' = peer.df
    /\ df_columns' = peer.df_columns
    /\ work' = peer.work
    /\ attempted' = peer.attempted
    /\ log' = peer.log
    /\ tier_ret' = peer.tier_ret
    /\ result' = peer.result
    /\ raised' = peer.raised
    /\ response' = peer.response
    /\ UNCHANGED <<open_conns, outer, db>>

\* ------------------------------------- forecasts per category and per region
\* generate_category_forecasts and generate_region_forecasts are the same
\* function but for the column they group by
BreakdownKinds == {"category", "region"}

BreakdownNames(kind) ==
    IF kind = "category" THEN <<"Furniture", "Technology">> ELSE <<"East", "West">>

\* what the breakdown query can return (GROUP BY: one row per name), each name
\* with the daily rows the narrowed filter will select
BreakdownQueries(kind) ==
    {[j \in 1..n |-> [name |-> BreakdownNames(kind)[j], rows |-> r[j]]] :
        n \in 0..2, r \in [1..2 -> ConcQueries \ {<<>>}]}

\* the arguments and locals of a call of generate_sales_forecast
CallVars == <<table, periods, df, df_columns, work, attempted, log,
              tier_ret, result, raised, response>>

\* routers/forecasts.py: the by-category and by-region endpoints
BreakdownRequest ==
    /\ pc = "idle"
    /\ outer.pc = "none"
    /\ \E k \in BreakdownKinds, p \in ConcPeriods :
          outer' = [NoOuter EXCEPT !.pc = "service", !.kind = k, !.periods = p]
    /\ pc' = "outer"
    /\ UNCHANGED <<CallVars, open_conns, self, peer, db>>

\* conn = get_connection(), before the try block
breakdown_get_connection ==
    /\ outer.pc = "service"
    /\ open_conns' = open_conns + 1
    /\ outer' = [outer EXCEPT !.pc = "connected"]
    /\ UNCHANGED <<pc, CallVars, self, peer, db>>

\* DataService.get_sales_by_category / _by_region takes its own connection
breakdown_connect ==
    /\ outer.pc = "connected"
    /\ open_conns' = open_conns + 1
    /\ outer' = [outer EXCEPT !.pc = "query"]
    /\ UNCHANGED <<pc, CallVars, self, peer, db>>

\* ... and returns the rows of the breakdown, closing its connection
get_sales_breakdown ==
    /\ outer.pc = "query"
    /\ open_conns' = open_conns - 1
    /\ \E g \in BreakdownQueries(outer.kind) :
          outer' = [outer EXCEPT !.pc = "loop", !.groups = g, !.i = 1]
    /\ UNCHANGED <<pc, CallVars, self, peer, db>>

\* ... or re-raises what the query raised, closing its connection
get_sales_breakdown_raises ==
    /\ outer.pc = "query"
    /\ open_conns' = open_conns - 1
    /\ \E e \in ExcTypes :
          outer' = [outer EXCEPT !.pc = "except",
                       !.raised = [type |-> e, origin |-> "data_service"]]
    /\ UNCHANGED <<pc, CallVars, self, peer, db>>

\* for category_data in categories: the filter narrowed to the name, and
\* forecast = ForecastService.generate_sales_forecast(category_filter, request)
NestedCall ==
    /\ outer.pc = "loop"
    /\ outer.i <= Len(outer.groups)
    /\ pc = "outer"
    /\ table' = outer.groups[outer.i].rows
    /\ periods' = outer.periods
    /\ pc' = "service"
    /\ df' = <<>>
    /\ df_columns' = {}
    /\ work' = <<>>
    /\ attempted' = <<>>
    /\ log' = <<>>
    /\ tier_ret' = NoReturn
    /\ result' = <<>>
    /\ raised' = None
    /\ response' = "none"
    /\ outer' = [outer EXCEPT !.pc = "calling"]
    /\ UNCHANGED <<open_conns, self, peer, db>>

\* the forecast stored under the name of the breakdown itself
NestedReturn_OneKey ==
    /\ outer.pc = "calling"
    /\ pc = "router"
    /\ raised = None
    /\ outer' = [outer EXCEPT
                    !.forecasts = [n \in {outer.kind} |-> result],
                    !.i = @ + 1,
                    !.pc = "loop"]
    /\ pc' = "outer"
    /\ UNCHANGED <<CallVars, open_conns, self, peer, db>>

\* category_forecasts[category_name] = forecast
NestedReturn ==
    /\ outer.pc = "calling"
    /\ pc = "router"
    /\ raised = None
    /\ LET name == outer.groups[outer.i].name
       IN  outer' = [outer EXCEPT
                        !.forecasts = [n \in DOMAIN @ \cup {name} |->
                                          IF n = name THEN result ELSE @[n]],
                        !.i = @ + 1,
                        !.pc = "loop"]
    /\ pc' = "outer"
    /\ UNCHANGED <<CallVars, open_conns, self, peer, db>>

\* the failed name left out and the loop going on with the next one
NestedRaises_Continues ==
    /\ outer.pc = "calling"
    /\ pc = "router"
    /\ raised # None
    /\ outer' = [outer EXCEPT !.i = @ + 1, !.pc = "loop"]
    /\ pc' = "outer"
    /\ UNCHANGED <<CallVars, open_conns, self, peer, db>>

\* the nested call raised: the exception leaves the loop for the handler
NestedRaises ==
    /\ outer.pc = "calling"
    /\ pc = "router"
    /\ raised # None
    /\ outer' = [outer EXCEPT !.raised = raised, !.pc = "except"]
    /\ pc' = "outer"
    /\ UNCHANGED <<CallVars, open_conns, self, peer, db>>

\* return category_forecasts
BreakdownReturn ==
    /\ outer.pc = "loop"
    /\ outer.i > Len(outer.groups)
    /\ outer' = [outer EXCEPT !.pc = "finally"]
    /\ UNCHANGED <<pc, CallVars, open_conns, self, peer, db>>

\* except Exception as e: log.error(...); raise
BreakdownExcept ==
    /\ outer.pc = "except"
    /\ outer' = [outer EXCEPT
                    !.log = Append(@, [tier |-> outer.kind, type |-> outer.raised.type]),
                    !.pc = "finally"]
    /\ UNCHANGED <<pc, CallVars, open_conns, self, peer, db>>

\* finally: conn.close()
BreakdownFinally ==
    /\ outer.pc = "finally"
    /\ open_conns' = open_conns - 1
    /\ outer' = [outer EXCEPT !.pc = "router"]
    /\ UNCHANGED <<pc, CallVars, self, peer, db>>

\* the endpoint wraps the mapping in ApiResponse or answers HTTPException(500)
BreakdownRespond ==
    /\ outer.pc = "router"
    /\ outer' = [outer EXCEPT
                    !.response = IF outer.raised = None THEN "success" ELSE "http500",
                    !.pc = "done"]
    /\ UNCHANGED <<pc, CallVars, open_conns, self, peer, db>>

\* the response has been sent and the worker waits for the next request
BreakdownRelease ==
    /\ outer.pc = "done"
    /\ outer' = NoOuter
    /\ pc' = "idle"
    /\ table' = <<>>
    /\ periods' = 30
    /\ df' = <<>>
    /\ df_columns' = {}
    /\ work' = <<>>
    /\ attempted' = <<>>
    /\ log' = <<>>
    /\ tier_ret' = NoReturn
    /\ result' = <<>>
    /\ raised' = None
    /\ response' = "none"
    /\ UNCHANGED <<open_conns, self, peer, db>>

\* ---------------------------------------------------------------- init_db
\* everything but the database: init_db touches none of it
ForecastVars == <<pc, CallVars, open_conns, self, peer, outer>>

\* main.py: startup_event and POST /api/init-db both call init_db()
init_db_call ==
    /\ db.pc = "idle"
    /\ db' = [db EXCEPT !.pc = "create_all", !.before = db.rows,
                        !.loaded = FALSE, !.sampled = FALSE, !.raised = FALSE]
    /\ UNCHANGED ForecastVars

\* Base.metadata.create_all(bind=engine): the table is created when missing
create_all ==
    /\ db.pc = "create_all"
    /\ db' = [db EXCEPT !.pc = "count", !.tbl = TRUE]
    /\ UNCHANGED ForecastVars

\* the check left out: the load runs whatever the table holds
count_rows_SkipsCheck ==
    /\ db.pc = "count"
    /\ db' = [db EXCEPT !.pc = "load"]
    /\ UNCHANGED ForecastVars

\* SELECT COUNT(*) FROM sales; if count > 0: log.info(...); return
count_rows ==
    /\ db.pc = "count"
    /\ db' = [db EXCEPT !.pc = IF Cardinality(db.rows) > 0 THEN "done" ELSE "load"]
    /\ UNCHANGED ForecastVars

\* the dataset file is missing: create_sample_dataset() writes random sample
\* records to the file and to the table (if_exists='replace'); return
create_sample_dataset ==
    /\ db.pc = "load"
    /\ ~db.file
    /\ \E sample \in SUBSET Records \ {{}} :
          db' = [db EXCEPT !.pc = "done", !.file = TRUE, !.csv = sample,
                           !.rows = sample, !.sampled = TRUE]
    /\ UNCHANGED ForecastVars

\* pd.read_csv, renaming, df.to_sql('sales', conn, if_exists='replace')
load_csv ==
    /\ db.pc = "load"
    /\ db.file
    /\ db' = [db EXCEPT !.pc = "done", !.rows = db.csv, !.loaded = TRUE]
    /\ UNCHANGED ForecastVars

\* ... or reading the file fails: except Exception: log.error(...); raise
load_csv_raises ==
    /\ db.pc = "load"
    /\ db.file
    /\ db' = [db EXCEPT !.pc = "done", !.raised = TRUE]
    /\ UNCHANGED ForecastVars

\* init_db has returned or raised to startup_event / initialize_database
init_db_return ==
    /\ db.pc = "done"
    /\ db' = [db EXCEPT !.pc = "idle"]
    /\ UNCHANGED ForecastVars

InitNext ==
    \/ init_db_call
    \/ create_all
    \/ count_rows
    \/ create_sample_dataset
    \/ load_csv
    \/ load_csv_raises
    \/ init_db_return

\* the application started on any database file and dataset file
InitStored ==
    /\ InitCalls
    /\ db \in Databases

InitSpec == InitStored /\ [][InitNext]_vars

Next ==
    \/ Request
    \/ get_connection
    \/ data_service_connect
    \/ get_sales_time_series
    \/ get_sales_time_series_raises
    \/ EmptyReturn
    \/ PrepareFrame
    \/ ProphetPrepare
    \/ ProphetFit
    \/ ProphetPredict
    \/ ProphetFormat
    \/ ProphetExcept
    \/ ArimaPrepare
    \/ ArimaFit
    \/ ArimaForecast
    \/ ArimaFormat
    \/ ArimaExcept
    \/ LinearReturn
    \/ LinearExcept
    \/ TierReturn
    \/ ServiceExcept
    \/ ServiceFinally
    \/ RouterRespond
    \/ Release

Spec == Init /\ [][Next]_vars

\* two calls under way at once, their statements interleaved in any order
ConcNext ==
    \/ ConcRequest
    \/ Switch
    \/ get_connection
    \/ data_service_connect
    \/ get_sales_time_series
    \/ get_sales_time_series_raises
    \/ EmptyReturn
    \/ PrepareFrame
    \/ ProphetPrepare
    \/ ProphetFit
    \/ ProphetPredict
    \/ ProphetFormat
    \/ ProphetExcept
    \/ ArimaPrepare
    \/ ArimaFit
    \/ ArimaForecast
    \/ ArimaFormat
    \/ ArimaExcept
    \/ LinearReturn
    \/ LinearExcept
    \/ TierReturn
    \/ ServiceExcept
    \/ ServiceFinally
    \/ RouterRespond
    \/ Release

ConcSpec == Init /\ [][ConcNext]_vars

\* one worker serving the three forecast endpoints, one request at a time
BreakdownNext ==
    \/ ConcRequest
    \/ BreakdownRequest
    \/ breakdown_get_connection
    \/ breakdown_connect
    \/ get_sales_breakdown
    \/ get_sales_breakdown_raises
    \/ NestedCall
    \/ NestedReturn
    \/ NestedRaises
    \/ BreakdownReturn
    \/ BreakdownExcept
    \/ BreakdownFinally
    \/ BreakdownRespond
    \/ BreakdownRelease
    \/ get_connection
    \/ data_service_connect
    \/ get_sales_time_series
    \/ get_sales_time_series_raises
    \/ EmptyReturn
    \/ PrepareFrame
    \/ ProphetPrepare
    \/ ProphetFit
    \/ ProphetPredict
    \/ ProphetFormat
    \/ ProphetExcept
    \/ ArimaPrepare
    \/ ArimaFit
    \/ ArimaForecast
    \/ ArimaFormat
    \/ ArimaExcept
    \/ LinearReturn
    \/ LinearExcept
    \/ TierReturn
    \/ ServiceExcept
    \/ ServiceFinally
    \/ RouterRespond
    \/ Release

BreakdownSpec == Init /\ [][BreakdownNext]_vars

TypeOK ==
    /\ periods \in -MaxNegPeriods..30
    /\ open_conns \in 0..4
    /\ response \in {"none", "success", "http500"}

\* ------------------------------------------------------ shared vocabulary
Cascade == <<"prophet", "arima", "linear">>

Failed(t) == \E i \in DOMAIN log : log[i].tier = t

Returned == pc \in {"service_finally", "router", "done"} /\ raised = None

\* the frame generate_sales_forecast builds from the daily rows
SortedSeries ==
    sort_values([i \in DOMAIN table |->
        [date |-> to_datetime(table[i].date), sales |-> table[i].sales]])

LastInputDate == SeqMax([i \in DOMAIN table |-> to_datetime(table[i].date)])

\* C1: on a non-empty series Prophet is the first tier entered, ARIMA is
\* entered only after Prophet was entered and failed in this call, and the
\* linear regression only after ARIMA was entered and failed in this call.
C1_TierOrder ==
    /\ Len(attempted) <= 3
    /\ \A i \in DOMAIN attempted : attempted[i] = Cascade[i]
    /\ \A i \in DOMAIN attempted :
          i > 1 => /\ Len(log) >= i - 1
                   /\ log[i - 1].tier = Cascade[i - 1]
    /\ pc \in ProphetSteps => attempted = <<"prophet">>
    /\ pc \in ArimaSteps => attempted = <<"prophet", "arima">>
    /\ pc = "linear" => attempted = Cascade

C1_Witness ==
    /\ pc = "linear"
    /\ attempted = Cascade
    /\ Failed("prophet") /\ Failed("arima")

\* C2: what generate_sales_forecast returns for a non-empty series is what the
\* first tier that succeeded returned, unaltered, and no tier is entered after
\* a tier has succeeded.
C2_FirstSuccessReturned ==
    /\ tier_ret.tier # "none" =>
          /\ attempted # <<>>
          /\ attempted[Len(attempted)] = tier_ret.tier
          /\ ~Failed(tier_ret.tier)
          /\ pc \notin ProphetSteps \cup ArimaSteps \cup {"linear"}
    /\ (Returned /\ table # <<>>) =>
          /\ tier_ret.tier # "none"
          /\ result = tier_ret.value

C2_Witness ==
    /\ pc = "done"
    /\ response = "success"
    /\ tier_ret.tier = "arima"
    /\ result = tier_ret.value
    /\ Len(result) = 2

\* C3: a failure of the linear regression leaves generate_sales_forecast as an
\* error; the call then returns no list, empty or partial.
C3_TerminalFailurePropagates ==
    Failed("linear") =>
        /\ pc \in {"service_except", "service_finally", "router", "done"}
        /\ raised # None
        /\ raised.origin = "linear"
        /\ tier_ret = NoReturn
        /\ result = <<>>
        /\ response # "success"
        /\ pc = "done" => response = "http500"

C3_Witness ==
    /\ pc = "done"
    /\ Failed("linear")
    /\ response = "http500"
    /\ Len(table) >= 2

\* C4: an exception raised in Prophet or in ARIMA, whatever its type and the
\* step that raised it, is caught by the cascade (the next tier is entered)
\* and the caller does not see it when a later tier succeeds.
C4_IntermediateFailuresCaught ==
    /\ raised.origin \notin {"prophet", "arima"}
    /\ \A i \in DOMAIN log :
          log[i].tier \in {"prophet", "arima"} =>
              /\ Len(attempted) > i
              /\ tier_ret.tier # "none" =>
                    /\ raised = None
                    /\ response # "http500"
                    /\ pc = "done" => response = "success"

C4_Witness ==
    /\ pc = "done"
    /\ response = "success"
    /\ Len(log) = 2
    /\ log[1] = [tier |-> "prophet", type |-> "RuntimeError"]
    /\ log[2] = [tier |-> "arima", type |-> "ValueError"]
    /\ tier_ret.tier = "linear"

\* C5: on an empty series the call returns the empty list for every
\* periods > 0 and enters no tier.
C5_EmptyShortCircuit ==
    (table = <<>> /\ periods > 0) =>
        /\ attempted = <<>>
        /\ tier_ret = NoReturn
        /\ result = <<>>
        /\ (pc = "done" /\ raised.origin # "data_service") => response = "success"

C5_Witness ==
    /\ pc = "done"
    /\ table = <<>>
    /\ periods > 0
    /\ response = "success"
    /\ result = <<>>

\* C6: for a non-empty series and periods = p > 0, the list the call returns
\* has exactly p points, whichever tier produced it.
C6_ExactlyPeriodsPoints ==
    (Returned /\ table # <<>> /\ periods > 0) => Len(result) = periods

C6_Witness ==
    /\ pc = "done"
    /\ response = "success"
    /\ tier_ret.tier = "prophet"
    /\ Len(table) = 3
    /\ periods = 2
    /\ Len(result) = 2

\* C7: the dates of the returned points are, in order, the last input date
\* plus 1, 2, ..., periods days, also when the input dates have gaps.
C7_ContiguousDates ==
    (Returned /\ table # <<>> /\ periods > 0) =>
        /\ DOMAIN result = 1..periods
        /\ \A i \in DOMAIN result : result[i].date = strftime(LastInputDate + i)

C7_Witness ==
    /\ pc = "done"
    /\ response = "success"
    /\ tier_ret.tier = "linear"
    /\ Len(table) = 2
    /\ table[1].date = <<2024, 2, 27>>
    /\ table[2].date = <<2024, 2, 29>>
    /\ periods = 3
    /\ result[1].date = <<2024, 3, 1>>
    /\ result[3].date = <<2024, 3, 3>>

\* C8: a request with periods <= 0 is rejected before any tier runs: no tier
\* is entered and the call returns no list, empty or not.
C8_NonPositivePeriodsRejected ==
    (periods <= 0 /\ pc # "idle") =>
        /\ attempted = <<>>
        /\ ~Returned

\* C9: a series of a single observation makes the call fail for every
\* periods > 0; no list of points is returned for it.
C9_SingleObservationFails ==
    (Len(table) = 1 /\ periods > 0) =>
        /\ tier_ret = NoReturn
        /\ ~Returned

\* C10: when Prophet and ARIMA both failed, the returned list equals, point
\* for point, the linear regression applied to the sorted series and periods.
C10_FallbackEqualsLinear ==
    (Returned /\ Failed("prophet") /\ Failed("arima")) =>
        \E z \in ZeroDiv :
            /\ linear_regression(SortedSeries, periods, z).ok
            /\ result = linear_regression(SortedSeries, periods, z).results

C10_Witness ==
    /\ pc = "done"
    /\ response = "success"
    /\ Failed("prophet") /\ Failed("arima")
    /\ Len(table) = 3
    /\ periods = 2
    /\ result[1].forecast = Fin(4000)
    /\ result[2].forecast = Fin(5000)

\* C11 as stated: every error that leaves generate_sales_forecast comes from a
\* failure of the linear regression.
C11_OnlyTerminalErrors ==
    raised # None => raised.origin = "linear"

\* C11 amended: every error that leaves generate_sales_forecast comes from a
\* failure of the linear regression or from the time-series query before the
\* cascade was entered; a failure of Prophet or ARIMA never leaves the call.
C11_TerminalOrOutsideCascade ==
    raised # None =>
        \/ /\ raised.origin = "linear"
           /\ attempted = Cascade
           /\ log[3] = [tier |-> "linear", type |-> raised.type]
        \/ /\ raised.origin = "data_service"
           /\ attempted = <<>>
           /\ ~Failed("prophet") /\ ~Failed("arima") /\ ~Failed("linear")

C11_Witness ==
    /\ pc = "done"
    /\ response = "http500"
    /\ raised.origin = "data_service"
    /\ table # <<>>
    /\ attempted = <<>>

\* a <= b as Python evaluates it on two numbers: false when either is nan
FloatLeq(a, b) ==
    IF a.k = "nan" \/ b.k = "nan" THEN FALSE
    ELSE IF b.k = "inf" THEN TRUE
    ELSE IF a.k = "inf" THEN FALSE
    ELSE a.v <= b.v

\* point i of the returned list had its lower bound replaced by 0 in tier 3
Clamped(i) ==
    /\ tier_ret.tier = "linear"
    /\ ~lower_positive(linear_fit(SortedSeries, periods), i)

\* C12: every returned point has forecast <= upper_bound, and
\* lower_bound <= forecast unless tier 3 clamped its lower bound to zero.
C12_BoundOrdering ==
    Returned =>
        \A i \in DOMAIN result :
            /\ FloatLeq(result[i].forecast, result[i].upper_bound)
            /\ ~Clamped(i) => FloatLeq(result[i].lower_bound, result[i].forecast)

\* the statements a call at position pc has at most still to go through
StepsLeft ==
    [idle |-> 0, service |-> 19, connected |-> 18, query |-> 17, loaded |-> 16,
     prophet_prepare |-> 15, prophet_fit |-> 14, prophet_predict |-> 13,
     prophet_format |-> 12,
     arima_prepare |-> 11, arima_fit |-> 10, arima_forecast |-> 9,
     arima_format |-> 8,
     linear |-> 7, tier_return |-> 6, service_except |-> 5,
     service_finally |-> 4, router |-> 3, done |-> 2][pc]

\* some statement of the call can run: at each position, the guards of the
\* steps that leave it (a handler takes whatever its tier raises; the body of
\* the linear regression returns or raises, whatever the division gives)
CanStep ==
    \/ pc \in {"service", "connected", "query"}
    \/ pc = "loaded" /\ (table = <<>> \/ table # <<>>)
    \/ pc \in ProphetSteps \cup ArimaSteps
    \/ pc = "linear" /\ \A z \in ZeroDiv :
                            linear_regression(df, periods, z).ok \in BOOLEAN
    \/ pc \in {"tier_return", "service_except", "service_finally", "router"}

\* C13: every call ends, with a list or with an error, having entered each
\* tier at most once: a call under way can always take a step (in tier 3 the
\* body either yields a list or raises, whatever the division gives), each step
\* brings it nearer to the response, and no tier is entered twice; a failure
\* of the linear regression leaves through the handlers of ARIMA and Prophet
\* without being caught and without another tier being entered.
C13_TerminatesEachTierOnce ==
    /\ [](pc \notin {"idle", "done"} => CanStep)
    /\ [][pc \notin {"idle", "done"} => StepsLeft' < StepsLeft]_vars
    /\ [](\A i, j \in DOMAIN attempted : attempted[i] = attempted[j] => i = j)
    /\ [][(raised.origin = "linear" /\ pc # "done") =>
             /\ attempted' = attempted
             /\ raised' = raised
             /\ tier_ret' = NoReturn
             /\ pc' \in {"service_finally", "router", "done"}]_vars

C13_Witness ==
    /\ pc = "done"
    /\ raised.origin = "linear"
    /\ attempted = Cascade
    /\ Len(log) = 4
    /\ response = "http500"

\* the three numeric fields of a returned record
NumFields == {"forecast", "lower_bound", "upper_bound"}

\* x written out has at most 2 digits after the decimal point; a nan or an
\* infinity has no digits at all
TwoDigits(x) == x.k \in {"fin", "int"} => x.v % Milli = 0

\* C15: every numeric field of every returned point has at most 2 digits
\* after the decimal point, whichever tier produced the point.
C15_TwoDecimals ==
    Returned =>
        \A i \in DOMAIN result : \A f \in NumFields : TwoDigits(result[i][f])

C15_Witness ==
    /\ Returned
    /\ tier_ret.tier = "prophet"
    /\ Len(result) = 2
    /\ result[1].forecast = Fin(2680)
    /\ result[2].lower_bound = Fin(1680)

\* C16 as stated: every returned record has exactly the four fields, a date in
\* text form and three numbers of one kind (floats) in every tier, and no
\* field naming the tier.
C16_UniformShape ==
    Returned =>
        \A i \in DOMAIN result :
            /\ DOMAIN result[i] = {"date"} \cup NumFields
            /\ Len(result[i].date) = 3
            /\ \A f \in NumFields : result[i][f].k \in {"fin", "nan", "inf"}

\* C17: the failure of a tier is in the log before the next tier runs, and
\* that of the linear regression before its error travels on, so the log
\* of a call names its failed tiers in cascade order.
C17_FailuresLoggedInOrder ==
    /\ pc \in ArimaSteps =>
          /\ Len(log) = 1
          /\ log[1].tier = "prophet"
    /\ pc = "linear" =>
          /\ Len(log) = 2
          /\ log[1].tier = "prophet" /\ log[2].tier = "arima"
    /\ raised.origin = "linear" =>
          /\ Len(log) >= 3
          /\ \A i \in 1..3 : log[i].tier = Cascade[i]
          /\ log[3].type = raised.type
    /\ \A i \in DOMAIN log :
          log[i].tier \in {"prophet", "arima", "linear"} => log[i].tier = Cascade[i]

C17_Witness ==
    /\ pc = "service_except"
    /\ raised.origin = "linear"
    /\ Len(log) = 3
    /\ log[1].tier = "prophet" /\ log[2].tier = "arima" /\ log[3].tier = "linear"

\* C18 as stated: in the linear tier, for every periods >= 1, the regressor
\* matrix of the forecast days has the intercept column next to the column of
\* the days max(days) + i, so the prediction is made and point i is the
\* fitted line at max(days) + i.
C18_RegressorRowComplete ==
    (pc = "linear" /\ periods >= 1) =>
        LET fit == linear_fit(df, periods)
        IN  /\ \A i \in 1..periods :
                  fit.fdays[i] = SeqMax(Column(df, "date")) - fit.first_date + i
            /\ ~fit.forecast_X.raises
            /\ fit.forecast_X.ncols = 2
            /\ \A z \in ZeroDiv :
                  /\ linear_regression(df, periods, z).ok
                  /\ \A i \in 1..periods :
                        linear_regression(df, periods, z).results[i].forecast
                            = Round2Rat(forecast_value(fit, i), fit.model.den)

\* the observations of the sorted series s lie on one line over the days
OnLine(s) ==
    \A i \in DOMAIN s :
        (s[i].sales - s[1].sales) * (s[Len(s)].date - s[1].date)
            = (s[Len(s)].sales - s[1].sales) * (s[i].date - s[1].date)

\* that line read i days after the last observation, rounded to 2 digits; a
\* single observation stands for the level line through it
LineForecast(s, i) ==
    LET n    == Len(s)
        span == s[n].date - s[1].date
    IN  IF n = 1 THEN Round2Rat(100 * s[1].sales, 1)
        ELSE Round2Rat(100 * (s[n].sales * span + (s[n].sales - s[1].sales) * i),
                       span)

\* C19: for a series lying exactly on a line a + b * days, the forecast that
\* the linear tier returns for step i is a + b * (max(days) + i).
C19_ExactLineExtrapolated ==
    (Returned /\ tier_ret.tier = "linear" /\ OnLine(SortedSeries)) =>
        /\ Len(result) = periods
        /\ \A i \in DOMAIN result :
              result[i].forecast = LineForecast(SortedSeries, i)

C19_Witness ==
    /\ Returned
    /\ tier_ret.tier = "linear"
    /\ OnLine(SortedSeries)
    /\ Len(table) = 3 /\ periods = 2
    /\ SortedSeries[1].sales = 1 /\ SortedSeries[3].sales = 3
    /\ result[1].forecast = Fin(4000) /\ result[2].forecast = Fin(5000)

\* b - a of two returned numbers
FloatSub(b, a) ==
    IF a.k = "nan" \/ b.k = "nan" THEN NaN
    ELSE IF b.k = "inf" THEN PosInf
    ELSE Fin(b.v - a.v)

\* two widths are the same up to the rounding of their ends; a nan equals
\* nothing
SameWidth(u, w) ==
    \/ u.k = "inf" /\ w.k = "inf"
    \/ /\ u.k \in {"fin", "int"} /\ w.k \in {"fin", "int"}
       /\ u.v - w.v <= Milli /\ w.v - u.v <= Milli

\* C20 as stated: in what the linear tier returns, upper_bound - forecast is
\* the same for every point, and forecast - lower_bound is that same value
\* for every point whose lower bound was not clamped.
C20_ConstantWidth ==
    (Returned /\ tier_ret.tier = "linear") =>
        \A i, j \in DOMAIN result :
            /\ SameWidth(FloatSub(result[i].upper_bound, result[i].forecast),
                         FloatSub(result[j].upper_bound, result[j].forecast))
            /\ ~Clamped(i) =>
                  SameWidth(FloatSub(result[i].forecast, result[i].lower_bound),
                            FloatSub(result[j].upper_bound, result[j].forecast))

\* the frame generate_sales_forecast builds from the rows t of the query
Series(t) ==
    sort_values([i \in DOMAIN t |->
        [date |-> to_datetime(t[i].date), sales |-> t[i].sales]])

\* the call with values c has returned a list
ReturnedBy(c) == c.pc \in {"service_finally", "router", "done"} /\ c.raised = None

\* the lists a call for rows t and horizon p can return, one per tier that can
\* succeed on them and per value the library can hand back
Outcomes(t, p) ==
    IF t = <<>> THEN {<<>>}
    ELSE
      LET s      == Series(t)
          future == make_future_dataframe(Column(s, "date"), p)
      IN  (IF Len(s) >= 2 /\ p >= -1
           THEN {prophet_results([j \in DOMAIN future |->
                     [ds |-> future[j]] @@ LibRow(tr, j)], p) : tr \in LibTriples}
           ELSE {})
          \cup (IF p >= 1
                THEN {arima_results(s, [j \in 1..p |-> LibRow(tr, j)], p) :
                         tr \in LibTriples}
                ELSE {})
          \cup {linear_regression(s, p, z).results :
                   z \in {y \in ZeroDiv : linear_regression(s, p, y).ok}}

\* every value of the call c comes from the rows and the horizon of c
OwnValuesOnly(c) ==
    /\ c.df \in {<<>>, Series(c.table)}
    /\ c.pc \in ProphetSteps \cup ArimaSteps \cup {"linear"} =>
          /\ c.table # <<>>
          /\ c.df = Series(c.table)
    /\ c.pc \in {"prophet_fit", "prophet_predict"} =>
          c.work = [i \in DOMAIN c.df |-> [ds |-> c.df[i].date, y |-> c.df[i].sales]]
    /\ c.pc \in {"arima_fit", "arima_forecast"} => c.work = Column(c.df, "sales")
    /\ \A i \in DOMAIN c.attempted : c.attempted[i] = Cascade[i]
    /\ c.attempted # <<>> => c.table # <<>>
    /\ ReturnedBy(c) => c.result \in Outcomes(c.table, c.periods)

\* C14: of two calls running at once, each has a tier sequence and a result
\* that come from its own series and periods only, and no step of one call
\* touches a value of the other: a step of the running call leaves the
\* other call's values as they are, and a change of the running call hands
\* both sets of values over unchanged.
C14_NoInterference ==
    /\ [](OwnValuesOnly(Locals) /\ OwnValuesOnly(peer))
    /\ [][self' = self => peer' = peer]_vars
    /\ [][self' # self => (peer' = Locals /\ Locals' = peer)]_vars

C14_Witness ==
    /\ pc = "arima_forecast"
    /\ peer.pc = "linear"
    /\ Len(table) = 3
    /\ Len(peer.table) = 1
    /\ periods # peer.periods
    /\ open_conns = 2

\* the list came from the linear regression
LinearReturned == Returned /\ tier_ret.tier = "linear"

\* C21: in what the linear tier returns every lower_bound is >= 0: the
\* rounded computed bound when that bound is positive, exactly 0 otherwise;
\* forecast and upper_bound are the rounded computed values, never clamped.
C21_LowerClampedOnly ==
    LinearReturned =>
        LET fit == linear_fit(SortedSeries, periods)
        IN  \A i \in DOMAIN result :
              /\ result[i].lower_bound.k \in {"fin", "int"}
              /\ result[i].lower_bound.v >= 0
              /\ (fit.defined /\ lower_value(fit, i) > 0) =>
                    result[i].lower_bound
                        = Round2Rat(lower_value(fit, i), fit.model.den)
              /\ ~(fit.defined /\ lower_value(fit, i) > 0) =>
                    result[i].lower_bound = IntZero
              /\ result[i].forecast
                    = Round2Rat(forecast_value(fit, i), fit.model.den)
              /\ fit.defined =>
                    result[i].upper_bound
                        = Round2Rat(upper_value(fit, i), fit.model.den)

C21_Witness ==
    /\ LinearReturned
    /\ linear_fit(SortedSeries, periods).defined
    /\ Len(result) = 2
    /\ result[2].lower_bound = IntZero
    /\ result[2].forecast.v < 0
    /\ result[2].upper_bound.k = "fin"

\* the dates of the sorted series s are not evenly spaced
Irregular(s) ==
    \E i, j \in 1..(Len(s) - 1) :
        s[i + 1].date - s[i].date # s[j + 1].date - s[j].date

\* C22: in the linear tier the day at which the line is read for point i is
\* the number of days from the minimum date of the series to the date of
\* point i, also when the dates of the series are irregularly spaced.
C22_DayMatchesDate ==
    LinearReturned =>
        LET fit == linear_fit(SortedSeries, periods)
        IN  \A i \in DOMAIN result :
              /\ result[i].date = strftime(fit.first_date + fit.fdays[i])
              /\ fit.first_date = SortedSeries[1].date
              /\ result[i].forecast
                    = Round2Rat(forecast_value(fit, i), fit.model.den)

C22_Witness ==
    /\ LinearReturned
    /\ Irregular(SortedSeries)
    /\ Len(result) = 3
    /\ result[1].forecast # result[3].forecast

\* C23 as stated: no tier changes the series it is given: while and after the
\* tiers run, the frame has the columns and the values it had when the first
\* tier received it.
C23_SeriesUnchanged ==
    df # <<>> =>
        /\ df = SortedSeries
        /\ df_columns = {"date", "sales"}

\* C24 as stated: every point the linear tier returns has
\* lower_bound <= upper_bound, clamped or not.
C24_LowerBelowUpper ==
    LinearReturned =>
        \A i \in DOMAIN result :
            FloatLeq(result[i].lower_bound, result[i].upper_bound)

\* C25 as stated: for every series the linear tier accepts the residual
\* standard error is a defined number, and every returned point has defined
\* finite forecast, lower_bound and upper_bound.
C25_DefinedStandardError ==
    LinearReturned =>
        /\ linear_fit(SortedSeries, periods).defined
        /\ \A i \in DOMAIN result : \A f \in NumFields :
              result[i][f].k \in {"fin", "int"}

\* connections held by the call of generate_sales_forecast under way: its own
\* from line 22 to its finally, and the data service's while the query runs
HeldBySales ==
    IF pc = "query" THEN 2
    ELSE IF pc \in {"connected", "loaded", "linear", "tier_return",
                    "service_except", "service_finally"}
                   \cup ProphetSteps \cup ArimaSteps
         THEN 1 ELSE 0

\* the same for the call of generate_category_forecasts / _region_forecasts
HeldByBreakdown ==
    IF outer.pc = "query" THEN 2
    ELSE IF outer.pc \in {"connected", "loop", "calling", "except", "finally"}
         THEN 1 ELSE 0

\* C26: every connection opened during a call of generate_sales_forecast or
\* of a breakdown forecast, nested calls included, is closed when the call
\* has returned or raised: the open connections are those of the functions
\* still under way, none is open once the endpoint has its answer, and after
\* a nested call only the connection of the enclosing call is open.
C26_ConnectionsClosed ==
    /\ open_conns = HeldBySales + HeldByBreakdown
    /\ (outer.pc = "none" /\ pc \in {"idle", "router", "done"}) => open_conns = 0
    /\ outer.pc \in {"router", "done"} => open_conns = 0
    /\ (outer.pc = "calling" /\ pc = "router") => open_conns = 1

C26_Witness ==
    /\ outer.pc = "done"
    /\ outer.kind = "region"
    /\ outer.raised.origin = "linear"
    /\ outer.i = 2
    /\ open_conns = 0

\* the names of the rows 1..n of the breakdown
GroupNames(n) == {outer.groups[j].name : j \in 1..n}

\* the breakdown forecast has returned its mapping
BreakdownReturned ==
    outer.pc \in {"finally", "router", "done"} /\ outer.raised = None

NestedFailed == outer.raised # None /\ outer.i >= 1

\* C28: when the forecast of one category (region) fails, the breakdown
\* forecast raises that error, answers with no mapping, and runs no forecast
\* for the categories after it; the loop gets to a category only after all
\* the categories before it have their forecast.
C28_FailFast ==
    /\ [](NestedFailed =>
             /\ outer.raised = raised
             /\ pc = "outer"
             /\ outer.pc \in {"except", "finally", "router", "done"}
             /\ outer.response # "success"
             /\ ~BreakdownReturned)
    /\ [](outer.pc \in {"loop", "calling", "except", "finally"} /\ outer.i >= 1 =>
             DOMAIN outer.forecasts = GroupNames(outer.i - 1))
    /\ [][(NestedFailed /\ outer.pc # "done") =>
             /\ outer'.i = outer.i
             /\ outer'.raised = outer.raised
             /\ outer'.forecasts = outer.forecasts
             /\ pc' = "outer"]_vars

C28_Witness ==
    /\ NestedFailed
    /\ outer.pc = "done"
    /\ outer.response = "http500"
    /\ outer.i = 1
    /\ Len(outer.groups) = 2
    /\ outer.raised.origin = "linear"

====
